---- MODULE Spec2Model ----
(***************************************************************************)
(* A model of spectral_cube/io/casa_image.py: the region reader            *)
(* ArraylikeCasaData (__init__, __getitem__), load_casa_image's use of it, *)
(* and the two full-array readers casa_image_array_reader and              *)
(* casa_image_dask_reader, over a small tiled CASA image.                  *)
(*                                                                         *)
(* Arrays are records [shape, at]: shape is a tuple of axis lengths and    *)
(* at maps every 0-based index tuple of that shape to an element.  The     *)
(* pixel stored at storage index ix is the tagged value <<"px", ix>>, so   *)
(* that every position of a result can be traced back to the stored        *)
(* element it came from.                                                   *)
(***************************************************************************)
EXTENDS Integers, Sequences, FiniteSets, TLC

\* Bounds of the model.
MaxDim == 3      \* longest axis of an image
MaxCells == 8    \* most pixels of an image
MaxCalls == 2    \* __getitem__ calls made in a row on one object

\* Ranks of the images (the reader accepts any rank).
Ranks == {1, 2, 3}

\* Python's None, and a present value v, for the optional fields of a slice.
None == << >>
Some(v) == <<v>>

VARIABLES
    store,      \* the image on disk: totalshape, chunkshape (storage order), scalar, hasmask
    arr,        \* the ArraylikeCasaData object: built, shape, ndim, chunksize, cache
    pending,    \* the arguments of the __getitem__ calls still to be made
    done,       \* the arguments of the __getitem__ calls made, in order
    ngetchunk,  \* native ia.getchunk calls made so far
    chunk_fits, \* whether casa_image_array_reader has written chunk.fits
    ret,        \* what the last operation returned or raised
    native,     \* the blc, trc and inc of the last ia.getchunk call
    fault,      \* the failures the image may meet: "open" (ia.open), "getchunk"
    handles,    \* the image tools that hold the image open
    calls,      \* the __getitem__ calls in progress, one per caller
    mapped,     \* the memmaps the last full read made of the payload file
    reads,      \* the chunks read when the dask array was last built or computed
    lazy        \* the dask array casa_image_dask_reader last returned

vars == <<store, arr, pending, done, ngetchunk, chunk_fits, ret,
          native, fault, handles, calls, mapped, reads, lazy>>

\* The state of the callers of the region reader, and of the full readers.
callvars == <<fault, handles, calls>>
fullvars == <<mapped, reads, lazy>>

(***************************************************************************)
(* Tuples and arrays                                                       *)
(***************************************************************************)
Reverse(s) == [i \in 1..Len(s) |-> s[Len(s) + 1 - i]]

RECURSIVE Product(_)
Product(s) == IF Len(s) = 0 THEN 1 ELSE Head(s) * Product(Tail(s))

RECURSIVE MaxOf(_)
MaxOf(s) == IF Len(s) = 0 THEN 0
            ELSE LET m == MaxOf(Tail(s)) IN IF Head(s) > m THEN Head(s) ELSE m

\* The 0-based index tuples of an array of the given shape.
Idx(shape) == {ix \in [1..Len(shape) -> 0..(MaxOf(shape) - 1)] :
                  \A i \in 1..Len(shape) : ix[i] < shape[i]}

\* The pixel the image holds at a storage index.
Pixel(ix) == <<"px", ix>>

NoData == [shape |-> <<0>>, at |-> << >>]

(***************************************************************************)
(* Slice specifications.  An entry of a specification is an integer or a   *)
(* slice(start, stop, step) whose three fields may each be None.           *)
(***************************************************************************)
integer(v) == [kind |-> "int", v |-> v, start |-> None, stop |-> None, step |-> None]
slice(a, b, c) == [kind |-> "slice", v |-> 0, start |-> a, stop |-> b, step |-> c]

\* hasattr(slc, 'start'), hasattr(slc, 'stop'), hasattr(slc, 'step'):
\* true of a slice, false of an integer.
hasattr(slc) == slc.kind = "slice"

\* astropy's sanitize_slices(slices, ndim), called at line 133: ValueError
\* for more than ndim entries, IndexError for a slice whose step is neither
\* None, 0 nor 1, and otherwise the entries followed by as many slice(None)
\* as are needed to make ndim of them.
sanitize_slices(slices, ndim) ==
    IF Len(slices) > ndim
    THEN [err |-> "ValueError", slices |-> << >>]
    ELSE IF \E i \in 1..Len(slices) :
                /\ hasattr(slices[i])
                /\ slices[i].step \notin {None, Some(0), Some(1)}
    THEN [err |-> "IndexError", slices |-> << >>]
    ELSE [err |-> "none",
          slices |-> slices \o [i \in 1..(ndim - Len(slices)) |->
                                    slice(None, None, None)]]

\* Lines 139-141.
blc_of(san) ==
    [j \in 1..Len(san) |->
        IF hasattr(san[j])
        THEN (IF san[j].start = None THEN -1 ELSE san[j].start[1])
        ELSE san[j].v]

\* A trc that passes every stop on as it is (end-exclusive).
trc_of_exclusive(san) ==
    [j \in 1..Len(san) |->
        IF hasattr(san[j])
        THEN (IF san[j].stop # None THEN san[j].stop[1] ELSE -1)
        ELSE san[j].v]

\* Lines 146-148.
trc_of(san) ==
    [j \in 1..Len(san) |->
        IF hasattr(san[j])
        THEN (IF san[j].stop # None
              THEN (IF san[j].stop[1] >= 1 THEN san[j].stop[1] - 1
                                           ELSE san[j].stop[1])
              ELSE -1)
        ELSE san[j].v]

\* Line 149: slc.step or 1 (None and 0 are falsy).
inc_of(san) ==
    [j \in 1..Len(san) |->
        IF hasattr(san[j])
        THEN (IF san[j].step \in {None, Some(0)} THEN 1 ELSE san[j].step[1])
        ELSE 1]

(***************************************************************************)
(* The native read ia.getchunk(blc, trc, inc) on an image of storage shape *)
(* T: the inclusive region blc..trc taken every inc-th pixel, in storage   *)
(* axis order, degenerate axes kept; -1 stands for the first pixel in blc  *)
(* and for the last pixel in trc.                                          *)
(***************************************************************************)
lo_of(blc, j) == IF blc[j] = -1 THEN 0 ELSE blc[j]
hi_of(T, trc, j) == IF trc[j] = -1 THEN T[j] - 1 ELSE trc[j]

\* The requests for which the native read is defined as above.
getchunk_defined(T, blc, trc, inc) ==
    \A j \in 1..Len(T) :
        /\ 0 <= lo_of(blc, j)
        /\ lo_of(blc, j) <= hi_of(T, trc, j)
        /\ hi_of(T, trc, j) <= T[j] - 1
        /\ inc[j] >= 1

getchunk(T, blc, trc, inc) ==
    LET shp == [j \in 1..Len(T) |->
                   ((hi_of(T, trc, j) - lo_of(blc, j)) \div inc[j]) + 1]
    IN [shape |-> shp,
        at |-> [ix \in Idx(shp) |->
                   Pixel([j \in 1..Len(T) |-> lo_of(blc, j) + ix[j] * inc[j]])]]

\* Lines 171-172: slice(None) for a sliced axis, 0 for an integer axis.
new_view_of(san) ==
    [j \in 1..Len(san) |-> IF san[j].kind = "slice" THEN "all" ELSE "0"]

\* A view that drops every axis of length 1 (a squeeze) instead of the
\* integer axes.
View_squeeze(data, new_view) ==
    LET n == Len(new_view)
        kept == SelectSeq([j \in 1..n |-> j], LAMBDA j : data.shape[j] # 1)
        pos(j) == Cardinality({q \in 1..j : data.shape[q] # 1})
        shp == [p \in 1..Len(kept) |-> data.shape[kept[p]]]
    IN [shape |-> shp,
        at |-> [ix \in Idx(shp) |->
                   data.at[[j \in 1..n |->
                               IF data.shape[j] # 1 THEN ix[pos(j)] ELSE 0]]]]

\* data[tuple(new_view)]: the axes viewed with 0 are dropped at index 0.
View(data, new_view) ==
    LET n == Len(new_view)
        kept == SelectSeq([j \in 1..n |-> j], LAMBDA j : new_view[j] = "all")
        pos(j) == Cardinality({q \in 1..j : new_view[q] = "all"})
        shp == [p \in 1..Len(kept) |-> data.shape[kept[p]]]
    IN [shape |-> shp,
        at |-> [ix \in Idx(shp) |->
                   data.at[[j \in 1..n |->
                               IF new_view[j] = "all" THEN ix[pos(j)] ELSE 0]]]]

\* ndarray.transpose() without arguments reverses the axes.
transpose(a) ==
    [shape |-> Reverse(a.shape),
     at |-> [ix \in Idx(Reverse(a.shape)) |-> a.at[Reverse(ix)]]]

\* Line 174.
transposed_data(data, san) == transpose(View(data, new_view_of(san)))

\* No native call, and the arguments of one (line 164).
NoCall == << >>
getchunk_args(san) == [blc |-> blc_of(san), trc |-> trc_of(san), inc |-> inc_of(san)]

\* A __getitem__ that serves a slice read before from self._cache.
getitem_cached(self, T, val) ==
    LET s == sanitize_slices(Reverse(val), self.ndim)
    IN IF s.err # "none"
       THEN [err |-> s.err, data |-> NoData, reads |-> 0, cache |-> self.cache,
             native |-> NoCall]
       ELSE IF \E c \in self.cache : c.key = val
       THEN [err |-> "none",
             data |-> (CHOOSE c \in self.cache : c.key = val).data,
             reads |-> 0, cache |-> self.cache, native |-> NoCall]
       ELSE LET san == s.slices
                data == getchunk(T, blc_of(san), trc_of(san), inc_of(san))
                out == transpose(View(data, new_view_of(san)))
            IN [err |-> "none", data |-> out, reads |-> 1,
                cache |-> self.cache \cup {[key |-> val, data |-> out]},
                native |-> getchunk_args(san)]

\* ArraylikeCasaData.__getitem__(value) on the object self over an image of
\* storage shape T (lines 128-178): what it raises or returns, the native
\* reads it makes, and the object's _cache after it.
getitem(self, T, val) ==
    LET s == sanitize_slices(Reverse(val), self.ndim)
    IN IF s.err # "none"
       THEN [err |-> s.err, data |-> NoData, reads |-> 0, cache |-> self.cache,
             native |-> NoCall]
       ELSE LET san == s.slices
                data == getchunk(T, blc_of(san), trc_of(san), inc_of(san))
            IN [err |-> "none", data |-> transposed_data(data, san),
                reads |-> 1, cache |-> self.cache, native |-> getchunk_args(san)]

(***************************************************************************)
(* The images and the requests the model draws.                            *)
(***************************************************************************)
Shapes == {T \in UNION {[1..n -> 1..MaxDim] : n \in Ranks} : Product(T) <= MaxCells}

\* Tile shapes of an image of total shape T: no longer than T on any axis.
TileShapes(T) == {C \in [1..Len(T) -> 1..MaxDim] : \A i \in 1..Len(T) : C[i] <= T[i]}

\* The entries tried on an axis of length L: every integer from -1 to L - 1,
\* every slice start:stop with the bounds absent or within the axis, the
\* bounds -1, and the steps 1 and 2.
Starts(L) == {None} \cup {Some(k) : k \in 0..(L - 1)}
Stops(L) == {None} \cup {Some(k) : k \in 0..L}
Entries(L) == {integer(v) : v \in (-1)..(L - 1)}
              \cup {slice(a, b, None) : a \in Starts(L), b \in Stops(L)}
              \cup {slice(Some(-1), None, None), slice(None, Some(-1), None)}
              \cup {slice(None, None, Some(c)) : c \in {1, 2}}

\* One entry per axis of an array of shape R.
RECURSIVE Specs(_)
Specs(R) == IF Len(R) = 0 THEN {<< >>}
            ELSE {Append(v, e) : v \in Specs(SubSeq(R, 1, Len(R) - 1)),
                                 e \in Entries(R[Len(R)])}

\* One entry per logical axis of an image of storage shape T.
Proper(T) == Specs(Reverse(T))

AllOf(T) == [i \in 1..Len(T) |-> slice(None, None, None)]

\* The proper requests, those with the entry of the last axis left out, and
\* one with an entry too many.
Requests(T) == Proper(T)
               \cup {SubSeq(v, 1, Len(T) - 1) : v \in Proper(T)}
               \cup {Append(AllOf(T), integer(0))}

\* The requests on which the native read of the model is defined.
RequestDefined(T, val) ==
    LET s == sanitize_slices(Reverse(val), Len(T))
    IN \/ s.err # "none"
       \/ getchunk_defined(T, blc_of(s.slices), trc_of(s.slices), inc_of(s.slices))

Unbuilt == [built |-> FALSE, shape |-> << >>, ndim |-> 0, chunksize |-> << >>,
            dtype |-> "", cache |-> {}]
NoRet == [op |-> "none", arg |-> << >>, err |-> "none", data |-> NoData]
NoLazy == [built |-> FALSE, data |-> NoData, owner |-> NoData]

(***************************************************************************)
(* The region reader                                                       *)
(***************************************************************************)
\* An __init__ that keeps the native axis order.
ArraylikeCasaData_native(st) ==
    [built |-> TRUE,
     shape |-> st.totalshape,
     ndim |-> Len(st.totalshape),
     chunksize |-> st.chunkshape,
     dtype |-> "float64",
     cache |-> {}]

\* ArraylikeCasaData(filename) (lines 69-124).
ArraylikeCasaData(st) ==
    [built |-> TRUE,
     shape |-> Reverse(st.totalshape),
     ndim |-> Len(Reverse(st.totalshape)),
     chunksize |-> Reverse(st.chunkshape),
     dtype |-> "float64",
     cache |-> {}]

\* getshape opens the image, reads its shape and closes it (lines 93-111);
\* an image that cannot be opened is an IOError (lines 98-103).
Construct ==
    /\ ~arr.built
    /\ \E f \in {"none"} \cup (fault \cap {"open"}) :
          IF f = "open"
          THEN /\ arr' = arr
               /\ ret' = [op |-> "init", arg |-> << >>, err |-> "IOError",
                          data |-> NoData]
          ELSE /\ arr' = ArraylikeCasaData(store)
               /\ ret' = [op |-> "init", arg |-> << >>, err |-> "none",
                          data |-> NoData]
    /\ UNCHANGED <<store, pending, done, ngetchunk, chunk_fits, native>>
    /\ UNCHANGED <<callvars, fullvars>>

\* The call arr[Head(pending)] (lines 128-178).
GetItem ==
    /\ arr.built
    /\ pending # << >>
    /\ LET r == getitem(arr, store.totalshape, Head(pending))
       IN /\ ret' = [op |-> "getitem", arg |-> Head(pending), err |-> r.err,
                     data |-> r.data]
          /\ ngetchunk' = ngetchunk + r.reads
          /\ arr' = [arr EXCEPT !.cache = r.cache]
          /\ native' = r.native
    /\ pending' = Tail(pending)
    /\ done' = Append(done, Head(pending))
    /\ UNCHANGED <<store, chunk_fits, callvars, fullvars>>

RegionStores == {[totalshape |-> T, chunkshape |-> T, scalar |-> FALSE,
                  hasmask |-> FALSE] : T \in Shapes}

InitRegion ==
    /\ store \in RegionStores
    /\ arr = Unbuilt
    /\ pending \in {<<v>> : v \in {w \in Requests(store.totalshape) :
                                      RequestDefined(store.totalshape, w)}}
    /\ done = << >>
    /\ ngetchunk = 0
    /\ chunk_fits = FALSE
    /\ ret = NoRet
    /\ native = NoCall
    /\ fault = {}
    /\ handles = {}
    /\ calls = << >>
    /\ mapped = << >>
    /\ reads = {}
    /\ lazy = NoLazy

NextRegion == Construct \/ GetItem

SpecRegion == InitRegion /\ [][NextRegion]_vars

\* Sequences of calls on one object: the whole array, its first pixel, the
\* first element of every axis kept as an axis, and a request with an entry
\* too many, in any order and with repetitions.
CallRequests(T) ==
    {AllOf(T),
     [i \in 1..Len(T) |-> integer(0)],
     [i \in 1..Len(T) |-> slice(None, Some(1), None)],
     Append(AllOf(T), integer(0))}

InitCalls ==
    /\ store \in RegionStores
    /\ arr = Unbuilt
    /\ pending \in UNION {[1..n -> CallRequests(store.totalshape)] : n \in 1..MaxCalls}
    /\ done = << >>
    /\ ngetchunk = 0
    /\ chunk_fits = FALSE
    /\ ret = NoRet
    /\ native = NoCall
    /\ fault = {}
    /\ handles = {}
    /\ calls = << >>
    /\ mapped = << >>
    /\ reads = {}
    /\ lazy = NoLazy

SpecCalls == InitCalls /\ [][NextRegion]_vars

\* Requests that take every branch of lines 139-149 on every axis: an
\* integer, absent and present bounds, the stops 0, -1 and L, a start of -1,
\* and the steps 0, 1 and 2.
StepEntries(L) ==
    {integer(L - 1), integer(-1),
     slice(None, None, None),
     slice(Some(0), Some(L), None),
     slice(Some(L - 1), Some(L), Some(1)),
     slice(None, Some(0), None),
     slice(None, Some(-1), None),
     slice(Some(-1), None, None),
     slice(None, None, Some(0)),
     slice(Some(0), Some(1), Some(0)),
     slice(None, None, Some(2))}

RECURSIVE StepSpecs(_)
StepSpecs(R) == IF Len(R) = 0 THEN {<< >>}
                ELSE {Append(v, e) : v \in StepSpecs(SubSeq(R, 1, Len(R) - 1)),
                                     e \in StepEntries(R[Len(R)])}

InitBounds ==
    /\ store \in RegionStores
    /\ arr = Unbuilt
    /\ pending \in {<<v>> : v \in {w \in StepSpecs(Reverse(store.totalshape)) :
                                      RequestDefined(store.totalshape, w)}}
    /\ done = << >>
    /\ ngetchunk = 0
    /\ chunk_fits = FALSE
    /\ ret = NoRet
    /\ native = NoCall
    /\ fault = {}
    /\ handles = {}
    /\ calls = << >>
    /\ mapped = << >>
    /\ reads = {}
    /\ lazy = NoLazy

SpecBounds == InitBounds /\ [][NextRegion]_vars

(***************************************************************************)
(* Callers of __getitem__ running at the same time on one object.  A call  *)
(* goes through lines 133-149 (translate), 152-161 (open), 164 (getchunk), *)
(* 165-166 (done, close) and 171-178 (view, transpose, return), and other  *)
(* calls may run between any two of these steps.                           *)
(***************************************************************************)
Threads == {1, 2}

\* One image tool kept for all the calls.
iatool_shared(t) == <<"ia", 0>>

\* self.iatool() (line 152): a new image tool, local to the call.
iatool(t) == <<"ia", t>>

NewCall(v) == [pc |-> "translate", value |-> v, san |-> << >>, ia |-> None,
               data |-> NoData, err |-> "none", out |-> NoData]

Finished(t) == calls[t].pc \in {"returned", "raised"}

\* Lines 133-149: sanitize_slices raises, or the entries are translated.
Translate(t) ==
    /\ arr.built
    /\ calls[t].pc = "translate"
    /\ LET s == sanitize_slices(Reverse(calls[t].value), arr.ndim)
       IN calls' = [calls EXCEPT ![t] =
                       IF s.err # "none"
                       THEN [@ EXCEPT !.pc = "raised", !.err = s.err]
                       ELSE [@ EXCEPT !.pc = "open", !.san = s.slices]]
    /\ UNCHANGED <<store, arr, pending, done, ngetchunk, chunk_fits, ret, native>>
    /\ UNCHANGED <<fault, handles, fullvars>>

\* Lines 152-161: the tool is made and opens the image, or the open fails
\* and the call raises.
OpenImage(t) ==
    /\ calls[t].pc = "open"
    /\ \E f \in {"none"} \cup (fault \cap {"open"}) :
          IF f = "open"
          THEN /\ calls' = [calls EXCEPT ![t] = [@ EXCEPT !.pc = "raised",
                                                           !.err = "IOError",
                                                           !.ia = iatool(t)]]
               /\ handles' = handles
          ELSE /\ calls' = [calls EXCEPT ![t] = [@ EXCEPT !.pc = "getchunk",
                                                           !.ia = iatool(t)]]
               /\ handles' = handles \cup {iatool(t)}
    /\ UNCHANGED <<store, arr, pending, done, ngetchunk, chunk_fits, ret, native>>
    /\ UNCHANGED <<fault, fullvars>>

\* Line 164: the native read through the call's tool.  It raises when the
\* read fails and when the tool no longer holds the image open; the
\* exception leaves __getitem__ at once.
GetChunk(t) ==
    /\ calls[t].pc = "getchunk"
    /\ \E f \in {"none"} \cup (fault \cap {"getchunk"}) :
          IF f = "getchunk" \/ calls[t].ia \notin handles
          THEN calls' = [calls EXCEPT ![t] = [@ EXCEPT !.pc = "raised",
                                                       !.err = "RuntimeError"]]
          ELSE calls' = [calls EXCEPT ![t] =
                            [@ EXCEPT !.pc = "done",
                                      !.data = getchunk(store.totalshape,
                                                        blc_of(calls[t].san),
                                                        trc_of(calls[t].san),
                                                        inc_of(calls[t].san))]]
    /\ ngetchunk' = ngetchunk + 1
    /\ native' = getchunk_args(calls[t].san)
    /\ UNCHANGED <<store, arr, pending, done, chunk_fits, ret>>
    /\ UNCHANGED <<fault, handles, fullvars>>

\* Lines 165-166: ia.done(), ia.close().
DoneClose(t) ==
    /\ calls[t].pc = "done"
    /\ handles' = handles \ {calls[t].ia}
    /\ calls' = [calls EXCEPT ![t] = [@ EXCEPT !.pc = "view"]]
    /\ UNCHANGED <<store, arr, pending, done, ngetchunk, chunk_fits, ret, native>>
    /\ UNCHANGED <<fault, fullvars>>

\* Lines 171-178.
ReturnData(t) ==
    /\ calls[t].pc = "view"
    /\ calls' = [calls EXCEPT ![t] =
                    [@ EXCEPT !.pc = "returned",
                              !.out = transposed_data(calls[t].data, calls[t].san)]]
    /\ UNCHANGED <<store, arr, pending, done, ngetchunk, chunk_fits, ret, native>>
    /\ UNCHANGED <<fault, handles, fullvars>>

\* What the callers ask for: the requests of CallRequests and the last
\* pixel, so that two calls read the same region, overlapping regions or
\* disjoint ones.
ThreadRequests(T) ==
    CallRequests(T) \cup {[i \in 1..Len(T) |-> integer(Reverse(T)[i] - 1)]}

InitThreads ==
    /\ store \in RegionStores
    /\ arr = Unbuilt
    /\ pending = << >>
    /\ done = << >>
    /\ ngetchunk = 0
    /\ chunk_fits = FALSE
    /\ ret = NoRet
    /\ native = NoCall
    /\ fault = {}
    /\ handles = {}
    /\ calls \in [Threads -> {NewCall(v) : v \in ThreadRequests(store.totalshape)}]
    /\ mapped = << >>
    /\ reads = {}
    /\ lazy = NoLazy

NextThreads ==
    \/ Construct
    \/ \E t \in Threads :
          \/ Translate(t)
          \/ OpenImage(t)
          \/ GetChunk(t)
          \/ DoneClose(t)
          \/ ReturnData(t)

SpecThreads == InitThreads /\ [][NextThreads]_vars

\* The same callers on an image that may fail to open and to be read.
InitFaults ==
    /\ store \in RegionStores
    /\ arr = Unbuilt
    /\ pending = << >>
    /\ done = << >>
    /\ ngetchunk = 0
    /\ chunk_fits = FALSE
    /\ ret = NoRet
    /\ native = NoCall
    /\ fault = {"open", "getchunk"}
    /\ handles = {}
    /\ calls \in [Threads -> {NewCall(v) : v \in ThreadRequests(store.totalshape)}]
    /\ mapped = << >>
    /\ reads = {}
    /\ lazy = NoLazy

SpecFaults == InitFaults /\ [][NextThreads]_vars
(***************************************************************************)
(* The payload file table.f0_TSM0.  The tiles of the image follow one      *)
(* another, each a full tile in Fortran order (lines 385, 461); the tiles  *)
(* themselves are numbered in Fortran order over the tile grid, the order  *)
(* casa_image_array_reader reassembles them in (lines 393-412).  A tile    *)
(* that sticks out of the image is padded.  A scalar-broadcast store       *)
(* holds one bucket of two elements, the first of them the scalar.         *)
(***************************************************************************)
ElementSize == 4    \* bytes of a float32

CeilDiv(a, b) == (a + b - 1) \div b

\* Fortran-order index of position q in an array of the given shape.
Unravel(q, shape) ==
    [i \in 1..Len(shape) |-> (q \div Product(SubSeq(shape, 1, i - 1))) % shape[i]]

\* Fortran-order position of an index.
RECURSIVE Ravel(_, _)
Ravel(ix, shape) ==
    IF Len(shape) = 0 THEN 0
    ELSE Head(ix) + Head(shape) * Ravel(Tail(ix), Tail(shape))

TilesOnDisk(st) ==
    [i \in 1..Len(st.totalshape) |-> CeilDiv(st.totalshape[i], st.chunkshape[i])]

\* A scalar-broadcast store: one bucket of 2 x ElementSize bytes, its first
\* element the scalar every pixel of the image has.
ScalarFileSize == 2 * ElementSize
ScalarElement(p) == IF p = 0 THEN <<"scalar", << >> >> ELSE <<"pad", <<p>> >>

FileSize(st) ==
    IF st.scalar THEN ScalarFileSize
    ELSE Product(TilesOnDisk(st)) * Product(st.chunkshape) * ElementSize

\* The p-th element (from 0) of the payload file.
StoredElement(st, p) ==
    IF st.scalar THEN ScalarElement(p)
    ELSE LET csz == Product(st.chunkshape)
             g == Unravel(p \div csz, TilesOnDisk(st))
             a == Unravel(p % csz, st.chunkshape)
             ix == [i \in 1..Len(st.totalshape) |-> g[i] * st.chunkshape[i] + a[i]]
         IN IF \A i \in 1..Len(ix) : ix[i] < st.totalshape[i]
            THEN Pixel(ix) ELSE <<"pad", <<p>> >>

\* The float32 decoded from the four bytes at byte offset b: a stored element
\* when b is the offset of one, and otherwise a value made of the bytes of
\* two neighbouring elements.
float32_at(st, b) ==
    IF b % ElementSize = 0 THEN StoredElement(st, b \div ElementSize)
    ELSE <<"torn", <<b>> >>

\* np.memmap(img_fn, dtype='float32', offset=offset, shape=shape, order='F')
\* (lines 386-387, 462-463): ValueError when the file is too short.
memmap_fails(st, offset, shape) ==
    offset + ElementSize * Product(shape) > FileSize(st)

memmap(st, offset, shape) ==
    [shape |-> shape,
     at |-> [ix \in Idx(shape) |->
                float32_at(st, offset + ElementSize * Ravel(ix, shape))]]

\* The byte offset the readers give the memmap of chunk ii (lines 386, 462).
chunk_offset(ii, chunksize) == ii * chunksize

\* np.concatenate / dask.array.concatenate along an axis (from 1): ValueError
\* for no arrays and for arrays that differ on another axis.
concat_fails(seq, axis) ==
    \/ Len(seq) = 0
    \/ \E k \in 1..Len(seq) : \E j \in 1..Len(seq[1].shape) :
          j # axis /\ seq[k].shape[j] # seq[1].shape[j]

RECURSIVE WidthBefore(_, _, _)
WidthBefore(seq, axis, k) ==
    IF k = 1 THEN 0
    ELSE WidthBefore(seq, axis, k - 1) + seq[k - 1].shape[axis]

concatenate(seq, axis) ==
    LET total == WidthBefore(seq, axis, Len(seq) + 1)
        shp == [seq[1].shape EXCEPT ![axis] = total]
        piece(x) == CHOOSE k \in 1..Len(seq) :
                        /\ WidthBefore(seq, axis, k) <= x
                        /\ x < WidthBefore(seq, axis, k + 1)
    IN [shape |-> shp,
        at |-> [ix \in Idx(shp) |->
                   LET k == piece(ix[axis])
                   IN seq[k].at[[ix EXCEPT ![axis] = @ - WidthBefore(seq, axis, k)]]]]

Raise(e) == [err |-> e, data |-> NoData]
Return(a) == [err |-> "none", data |-> a]

\* The memmaps the list comprehension of lines 386-388 and 462-464 makes, as
\* byte ranges of the payload file, in order: chunk ii at offset ii*chunksize,
\* as long as the file is long enough.  All of them are held in the list
\* chunks at the same time.
chunks_mapped(st) ==
    LET chunksize == Product(st.chunkshape)
        nchunks == Product(st.totalshape) \div Product(st.chunkshape)
        bad == {ii \in 1..nchunks :
                   memmap_fails(st, chunk_offset(ii - 1, chunksize), st.chunkshape)}
        n == IF bad = {} THEN nchunks
             ELSE (CHOOSE ii \in bad : \A jj \in bad : ii <= jj) - 1
    IN [ii \in 1..n |-> [offset |-> chunk_offset(ii - 1, chunksize),
                         nbytes |-> ElementSize * chunksize]]

(***************************************************************************)
(* casa_image_dask_reader (lines 434-489)                                  *)
(***************************************************************************)
\* Lines 469-481: from the last axis to the first, every stacks[idim]
\* consecutive chunks are concatenated along axis idim.
RECURSIVE dask_stack(_, _, _, _)
dask_stack(chunks, nchunks, stacks, idim) ==
    IF idim = 0 THEN chunks
    ELSE IF stacks[idim] = 1 THEN dask_stack(chunks, nchunks, stacks, idim - 1)
    ELSE LET chunks_new ==
                 [i \in 1..(nchunks \div stacks[idim]) |->
                     concatenate(SubSeq(chunks, (i - 1) * stacks[idim] + 1,
                                        i * stacks[idim]), idim)]
         IN dask_stack(chunks_new, nchunks \div stacks[idim], stacks, idim - 1)

\* The same loop on the sets of chunks the arrays are made of, with the
\* chunks that line 483 computes after every round of stacking
\* (np.asarray(c) for every c in chunks).
RECURSIVE dask_parts(_, _, _, _, _)
dask_parts(parts, read, nchunks, stacks, idim) ==
    IF idim = 0 THEN [parts |-> parts, read |-> read]
    ELSE IF stacks[idim] = 1 THEN dask_parts(parts, read, nchunks, stacks, idim - 1)
    ELSE LET parts_new ==
                 [i \in 1..(nchunks \div stacks[idim]) |->
                     UNION {parts[k] : k \in ((i - 1) * stacks[idim] + 1)..(i * stacks[idim])}]
         IN dask_parts(parts_new,
                       read \cup UNION {parts_new[i] : i \in 1..Len(parts_new)},
                       nchunks \div stacks[idim], stacks, idim - 1)

\* The chunks (numbered from 0) whose contents casa_image_dask_reader reads
\* while it builds the array: those of line 483, and those of the array it
\* returns, which line 487 computes (np.asarray(chunks[0])).
dask_reads(st) ==
    LET stacks == [i \in 1..Len(st.totalshape) |-> st.totalshape[i] \div st.chunkshape[i]]
        nchunks == Product(st.totalshape) \div Product(st.chunkshape)
        r == dask_parts([ii \in 1..nchunks |-> {ii - 1}], {}, nchunks, stacks, Len(stacks))
    IN r.read \cup r.parts[1]

\* The chunk every element of the returned array comes from: the blocks of
\* the dask array are the memmaps it was concatenated from (line 478).
dask_owner(st) ==
    LET stacks == [i \in 1..Len(st.totalshape) |-> st.totalshape[i] \div st.chunkshape[i]]
        nchunks == Product(st.totalshape) \div Product(st.chunkshape)
        ids == [ii \in 1..nchunks |->
                   [shape |-> st.chunkshape, at |-> [ix \in Idx(st.chunkshape) |-> ii - 1]]]
    IN dask_stack(ids, nchunks, stacks, Len(stacks))[1]

casa_image_dask_reader(st) ==
    LET chunkshape == st.chunkshape
        chunksize == Product(chunkshape)
        totalshape == st.totalshape
        stacks == [i \in 1..Len(totalshape) |-> totalshape[i] \div chunkshape[i]]
        nchunks == Product(totalshape) \div Product(chunkshape)
        chunks == [ii \in 1..nchunks |->
                      memmap(st, chunk_offset(ii - 1, chunksize), chunkshape)]
    IN IF \E ii \in 1..nchunks :
              memmap_fails(st, chunk_offset(ii - 1, chunksize), chunkshape)
       THEN Raise("ValueError")
       ELSE Return(dask_stack(chunks, nchunks, stacks, Len(stacks))[1])

\* A call casa_image_dask_reader(imagename, **kwargs): the function takes
\* imagename only (line 434), so any keyword is a TypeError.
DaskReader(kwargs) ==
    /\ ret' = [op |-> "dask", arg |-> kwargs] @@
              (IF kwargs # << >> THEN Raise("TypeError")
               ELSE casa_image_dask_reader(store))
    /\ mapped' = IF kwargs # << >> THEN << >> ELSE chunks_mapped(store)
    /\ reads' = IF ret'.err = "none" THEN dask_reads(store) ELSE {}
    /\ lazy' = IF ret'.err = "none"
               THEN [built |-> TRUE, data |-> ret'.data, owner |-> dask_owner(store)]
               ELSE lazy
    /\ UNCHANGED <<store, arr, pending, done, ngetchunk, chunk_fits, native>>
    /\ UNCHANGED callvars

\* The regions lo..hi (both inclusive) of an array of the given shape.
Boxes(shape) == {b \in Idx(shape) \X Idx(shape) :
                    \A i \in 1..Len(shape) : b[1][i] <= b[2][i]}

\* a[lo[1]:hi[1]+1, ...]
Region(a, lo, hi) ==
    LET shp == [i \in 1..Len(lo) |-> hi[i] - lo[i] + 1]
    IN [shape |-> shp,
        at |-> [ix \in Idx(shp) |-> a.at[[i \in 1..Len(lo) |-> lo[i] + ix[i]]]]]

\* A consumer computes a region of the dask array the reader returned
\* (line 489): dask computes the blocks the region lies in, which are the
\* memmaps of line 462.
Materialize(lo, hi) ==
    /\ lazy.built
    /\ <<lo, hi>> \in Boxes(lazy.data.shape)
    /\ ret' = [op |-> "compute", arg |-> <<lo, hi>>, err |-> "none",
               data |-> Region(lazy.data, lo, hi)]
    /\ reads' = {Region(lazy.owner, lo, hi).at[ix] :
                    ix \in Idx(Region(lazy.owner, lo, hi).shape)}
    /\ UNCHANGED <<store, arr, pending, done, ngetchunk, chunk_fits, native>>
    /\ UNCHANGED <<callvars, mapped, lazy>>

(***************************************************************************)
(* casa_image_array_reader (lines 358-430)                                 *)
(***************************************************************************)
\* rslt[ii::cut]
Strided(rslt, ii, cut) ==
    [k \in 1..CeilDiv(Len(rslt) - ii, cut) |-> rslt[ii + (k - 1) * cut + 1]]

\* Lines 401-413, entered with m stacks left in rstacks.  stacks is the float
\* quotient totalshape / chunkshape (line 381), kept here as the fractions
\* totalshape[i] / chunkshape[i]; cut is their product over the remaining
\* axes, an integer when the product of the denominators divides the
\* product of the numerators.
RECURSIVE array_stack(_, _, _)
array_stack(st, rslt, m) ==
    LET kk == m - 1
        num == Product(SubSeq(st.totalshape, 1, kk))
        den == Product(SubSeq(st.chunkshape, 1, kk))
        cut == num \div den
    IN IF kk = 0
       THEN (IF concat_fails(rslt, 1) THEN Raise("ValueError")
             ELSE Return(concatenate(rslt, 1)))
       ELSE IF num % den # 0 THEN Raise("AssertionError")
       ELSE IF \E ii \in 0..(cut - 1) : concat_fails(Strided(rslt, ii, cut), kk + 1)
       THEN Raise("ValueError")
       ELSE array_stack(st,
                        [ii \in 1..cut |->
                            concatenate(Strided(rslt, ii - 1, cut), kk + 1)],
                        m - 1)

\* chunk.fits is written (line 391) once the chunks are mapped; writing it
\* again is an OSError, as the file exists.
casa_image_array_reader(st, chunk_fits_exists) ==
    LET chunkshape == st.chunkshape
        chunksize == Product(chunkshape)
        nchunks == Product(st.totalshape) \div Product(chunkshape)
        chunks == [ii \in 1..nchunks |->
                      memmap(st, chunk_offset(ii - 1, chunksize), chunkshape)]
    IN IF \E ii \in 1..nchunks :
              memmap_fails(st, chunk_offset(ii - 1, chunksize), chunkshape)
       THEN [chunk_fits |-> chunk_fits_exists] @@ Raise("ValueError")
       ELSE IF chunk_fits_exists
       THEN [chunk_fits |-> TRUE] @@ Raise("OSError")
       ELSE [chunk_fits |-> TRUE] @@ array_stack(st, chunks, Len(st.totalshape))

ArrayReader ==
    /\ LET r == casa_image_array_reader(store, chunk_fits)
       IN /\ ret' = [op |-> "array", arg |-> << >>, err |-> r.err, data |-> r.data]
          /\ chunk_fits' = r.chunk_fits
    /\ mapped' = chunks_mapped(store)
    /\ UNCHANGED <<store, arr, pending, done, ngetchunk, native>>
    /\ UNCHANGED <<callvars, reads, lazy>>

(***************************************************************************)
(* load_casa_image (lines 181-356), as far as the shape of the cube        *)
(***************************************************************************)
\* The cube is built on dask.array.from_array(arrdata, chunks=
\* arrdata.chunksize) (lines 217-222), whose shape is arrdata.shape; its data
\* are not read.  An image of three axes gives a cube (lines 306-321), one of
\* four a Stokes cube (not modelled), any other a ValueError (line 352).
load_casa_image(st) ==
    LET arrdata == ArraylikeCasaData(st)
        naxis == arrdata.ndim
    IN IF naxis = 3 THEN Return([shape |-> arrdata.shape, at |-> << >>])
       ELSE IF naxis = 4 THEN Return(NoData)
       ELSE Raise("ValueError")

LoadCasaImage ==
    /\ ret' = [op |-> "load", arg |-> << >>] @@ load_casa_image(store)
    /\ UNCHANGED <<store, arr, pending, done, ngetchunk, chunk_fits, native>>
    /\ UNCHANGED <<callvars, fullvars>>

\* The images of the full-array readers: every tile shape, per-tile or
\* scalar-broadcast storage, with or without a mask.
Stores == {[totalshape |-> T, chunkshape |-> C, scalar |-> sc, hasmask |-> hm] :
              T \in Shapes, C \in UNION {TileShapes(T2) : T2 \in Shapes},
              sc \in BOOLEAN, hm \in BOOLEAN}

Init ==
    /\ store \in {st \in Stores : st.chunkshape \in TileShapes(st.totalshape)}
    /\ arr = Unbuilt
    /\ pending = << >>
    /\ done = << >>
    /\ ngetchunk = 0
    /\ chunk_fits = FALSE
    /\ ret = NoRet
    /\ native = NoCall
    /\ fault = {}
    /\ handles = {}
    /\ calls = << >>
    /\ mapped = << >>
    /\ reads = {}
    /\ lazy = NoLazy

Next ==
    \/ Construct
    \/ LoadCasaImage
    \/ \E kwargs \in {<< >>, <<"mask">>} : DaskReader(kwargs)
    \/ ArrayReader

Spec == Init /\ [][Next]_vars

\* The dask array and its consumers: the array is built from an image
\* stored tile by tile, and regions of it are computed.
InitLazy ==
    /\ Init
    /\ ~store.scalar
    /\ ~store.hasmask

NextLazy ==
    \/ DaskReader(<< >>)
    \/ \E b \in Boxes(lazy.data.shape) : Materialize(b[1], b[2])

SpecLazy == InitLazy /\ [][NextLazy]_vars

(***************************************************************************)
(* Reference semantics the claims compare the readers with: the logical    *)
(* array of an image, and ordinary (numpy) indexing of an array.           *)
(***************************************************************************)
\* The logical array: shape reversed, element (i0,...,ik) the pixel stored
\* at storage index (ik,...,i0).
Logical(T) ==
    [shape |-> Reverse(T),
     at |-> [ix \in Idx(Reverse(T)) |-> Pixel(Reverse(ix))]]

\* slice.indices(L) for a positive step, and the number of elements selected.
RefStep(e) == IF e.step = None THEN 1 ELSE e.step[1]
RefClip(x, L) == IF x < 0 THEN (IF x + L < 0 THEN 0 ELSE x + L)
                 ELSE (IF x > L THEN L ELSE x)
RefStart(e, L) == IF e.start = None THEN 0 ELSE RefClip(e.start[1], L)
RefStop(e, L) == IF e.stop = None THEN L ELSE RefClip(e.stop[1], L)
RefLen(e, L) ==
    IF RefStop(e, L) <= RefStart(e, L) THEN 0
    ELSE ((RefStop(e, L) - RefStart(e, L) - 1) \div RefStep(e)) + 1
RefInt(e, L) == IF e.v < 0 THEN e.v + L ELSE e.v

\* The positions of the slice entries of a specification, in order.
SliceAxes(S) == SelectSeq([i \in 1..Len(S) |-> i], LAMBDA i : S[i].kind = "slice")
IntAxes(S) == {i \in 1..Len(S) : S[i].kind = "int"}
AxisPos(S, i) == Cardinality({q \in 1..i : S[q].kind = "slice"})

\* a[S] for a specification S with one entry per axis of a.
RefIndex(a, S) ==
    LET kept == SliceAxes(S)
        shp == [p \in 1..Len(kept) |-> RefLen(S[kept[p]], a.shape[kept[p]])]
    IN [shape |-> shp,
        at |-> [r \in Idx(shp) |->
                   a.at[[i \in 1..Len(S) |->
                            IF S[i].kind = "int" THEN RefInt(S[i], a.shape[i])
                            ELSE RefStart(S[i], a.shape[i])
                                 + r[AxisPos(S, i)] * RefStep(S[i])]]]]

\* The last operation was arr[S] with one entry per logical axis.
ProperCall == ret.op = "getitem" /\ Len(ret.arg) = arr.ndim

(***************************************************************************)
(* Claims about the region reader                                          *)
(***************************************************************************)
\* C2: for every valid slice specification S with one entry per axis,
\* arr[S] returns exactly the logical full array indexed by S.
C2_SliceFullConsistency ==
    ProperCall =>
        /\ ret.err = "none"
        /\ ret.data = RefIndex(Logical(store.totalshape), ret.arg)

\* C3: on an axis of length L a slice with absent stop gives the same result
\* as the same slice with stop = L, and a slice with stop = 0 gives an axis
\* of length 0 in the result.
C3_AbsentStopIsLength ==
    ProperCall =>
        \A i \in 1..Len(ret.arg) :
            (ret.arg[i].kind = "slice" /\ ret.arg[i].stop = None) =>
                LET other == [ret.arg EXCEPT ![i].stop = Some(arr.shape[i])]
                    r == getitem(arr, store.totalshape, other)
                IN r.err = ret.err /\ r.data = ret.data

C3_StopZeroIsEmpty ==
    ProperCall =>
        \A i \in 1..Len(ret.arg) :
            (ret.arg[i].kind = "slice" /\ ret.arg[i].stop = Some(0)) =>
                /\ ret.err = "none"
                /\ ret.data.shape[AxisPos(ret.arg, i)] = 0

C3_BoundNormalization == C3_AbsentStopIsLength /\ C3_StopZeroIsEmpty

\* C4: for a specification with one entry per axis, k of them integers, the
\* result has rank n - k; exactly the integer axes are removed (the result
\* holds the one index given on each), every sliced axis is kept, also when
\* its length is 1 (a slice :m with 1 <= m gives an axis of length m), and
\* the kept axes appear in logical order (the p-th axis of the result runs
\* along the p-th sliced axis).
C4_IntegerAxisCollapse ==
    (ProperCall /\ ret.err = "none") =>
        LET S == ret.arg
            kept == SliceAxes(S)
            d == ret.data
            \* the logical index of the pixel found at position r
            lix(r) == Reverse(d.at[r][2])
        IN /\ Len(d.shape) = Len(S) - Cardinality(IntAxes(S))
           /\ Len(d.shape) = Len(kept)
           /\ \A p \in 1..Len(kept) :
                 LET e == S[kept[p]]
                 IN (e.start = None /\ e.step = None /\ e.stop # None
                     /\ e.stop # Some(-1) /\ e.stop # Some(0))
                        => d.shape[p] = e.stop[1]
           /\ \A r \in Idx(d.shape) :
                 /\ \A i \in IntAxes(S) :
                       lix(r)[i] = IF S[i].v >= 0 THEN S[i].v
                                   ELSE lix([q \in 1..Len(kept) |-> 0])[i]
                 /\ \A p \in 1..Len(kept) :
                       lix(r)[kept[p]] =
                           lix([q \in 1..Len(kept) |-> 0])[kept[p]]
                           + r[p] * RefStep(S[kept[p]])

\* C4 witness: arr[:3, :2, 0] on an image of logical shape (3, 2, 1) has
\* returned an array of shape (3, 2).
C4_Witness ==
    /\ ret.op = "getitem"
    /\ ret.err = "none"
    /\ arr.shape = <<3, 2, 1>>
    /\ ret.arg = <<slice(None, Some(3), None), slice(None, Some(2), None), integer(0)>>
    /\ ret.data.shape = <<3, 2>>

\* C9: a specification with fewer or more entries than the rank fails with
\* an invalid-slice error and performs no native read.
C9_RankMismatchRejected ==
    (ret.op = "getitem" /\ Len(ret.arg) # arr.ndim) =>
        /\ ret.err \in {"ValueError", "IndexError"}
        /\ ngetchunk = 0

\* C10: every successful __getitem__ call issues exactly one native getchunk
\* call, also when the same slice was read before, and _cache stays empty.
C10_OneReadNoCache ==
    /\ [][(pending # << >> /\ pending' = Tail(pending) /\ ret'.err = "none")
              => ngetchunk' = ngetchunk + 1]_vars
    /\ [](arr.cache = {})

\* C10 witness: the same slice has been read twice in a row, with two
\* native reads.
C10_Witness ==
    /\ Len(done) = 2
    /\ done[1] = done[2]
    /\ ret.op = "getitem"
    /\ ret.err = "none"
    /\ ngetchunk = 2
    /\ arr.cache = {}

(***************************************************************************)
(* Claims about opening an image and about the full-array readers          *)
(***************************************************************************)
\* Per-tile storage with every axis a whole number of tiles.
Regular(st) ==
    /\ ~st.scalar
    /\ \A i \in 1..Len(st.totalshape) : st.totalshape[i] % st.chunkshape[i] = 0

Irregular(st) ==
    /\ ~st.scalar
    /\ \E i \in 1..Len(st.totalshape) : st.totalshape[i] % st.chunkshape[i] # 0

\* C1: for an array stored with total shape T and tile shape C, every T[i] a
\* multiple of C[i], casa_image_dask_reader returns the array of shape
\* reverse(T) whose element (i0,...,ik) is the stored element (ik,...,i0).
C1_RoundTrip ==
    (ret.op = "dask" /\ ret.arg = << >> /\ Regular(store)) =>
        /\ ret.err = "none"
        /\ ret.data = Logical(store.totalshape)

C6_MaskNotFound ==
    /\ (ret.op = "dask" /\ ret.arg = <<"mask">> /\ ~store.hasmask) =>
          ret.err = "FileNotFoundError"
    /\ (ret.op = "dask" /\ ret.arg = << >> /\ ~store.hasmask /\ Regular(store)) =>
          ret.err = "none"

\* C7: when some totalshape[i] is not a multiple of chunkshape[i], both
\* full-array readers fail with an error and return no array, whichever
\* axis it is.
C7_IrregularRejected ==
    (ret.op \in {"dask", "array"} /\ ret.arg = << >> /\ Irregular(store)) =>
        ret.err # "none"

\* C8: for a scalar-broadcast store the full read returns an array of the
\* declared total shape, in logical order, every element of which is the
\* scalar at the start of the payload.
C8_ScalarBroadcast ==
    (ret.op = "dask" /\ ret.arg = << >> /\ store.scalar) =>
        /\ ret.err = "none"
        /\ ret.data.shape = Reverse(store.totalshape)
        /\ \A ix \in Idx(ret.data.shape) : ret.data.at[ix] = StoredElement(store, 0)

\* The last operation was a full read that got as far as mapping chunks.
FullRead == ret.op \in {"dask", "array"} /\ ret.arg = << >>

\* C12: while the full array is built, the number of mappings of the payload
\* file held at the same time does not grow with the number of tiles: a tile
\* access maps, reads and unmaps one tile, so never more than one is held.
C12_BoundedHandles ==
    FullRead => Len(mapped) <= 1

\* C13: building the array with casa_image_dask_reader reads the contents of
\* no tile, and computing a region of it reads exactly the tiles that hold an
\* element of the region.
C13_LazyFullRead ==
    /\ (ret.op = "dask" /\ ret.err = "none") => reads = {}
    /\ ret.op = "compute" =>
          reads = {lazy.owner.at[ix] :
                      ix \in {jx \in Idx(lazy.owner.shape) :
                                 \A i \in 1..Len(jx) :
                                    ret.arg[1][i] <= jx[i] /\ jx[i] <= ret.arg[2][i]}}

\* C16: the full-array readers read tile k (from 0) at byte offset
\* k x tileElementCount x 4, so that the byte ranges of distinct tiles do not
\* overlap and together cover the first nTiles x tileElementCount x 4 bytes.
C16_TileByteOffset ==
    FullRead =>
        /\ \A k \in 1..Len(mapped) :
              /\ mapped[k].offset = (k - 1) * Product(store.chunkshape) * ElementSize
              /\ mapped[k].nbytes = Product(store.chunkshape) * ElementSize
        /\ \A j, k \in 1..Len(mapped) :
              j < k => mapped[j].offset + mapped[j].nbytes <= mapped[k].offset

(***************************************************************************)
(* Claims about the bounds the region reader hands to the native read      *)
(***************************************************************************)
\* The last operation was arr[S] with one entry per logical axis, and it
\* got as far as the native read.
NativeCall == ProperCall /\ native # NoCall

\* The entry of the request that entry j of blc, trc and inc is for: the one
\* of logical axis n + 1 - j (axes and entries counted from 1).
EntryFor(j) == ret.arg[Len(ret.arg) + 1 - j]

\* The blc and trc the claim gives an entry.
ClaimedBlc(e) == IF e.kind = "int" THEN e.v
                 ELSE IF e.start = None THEN -1 ELSE e.start[1]
ClaimedTrc(e) == IF e.kind = "int" THEN e.v
                 ELSE IF e.stop = None THEN -1
                 ELSE IF e.stop[1] >= 1 THEN e.stop[1] - 1 ELSE e.stop[1]

\* C15 as claimed: blc, trc and inc have one entry per axis in the reverse
\* of logical axis order; a slice gives blc = -1 for an absent start and the
\* start otherwise, trc = -1 for an absent stop, stop - 1 for a stop >= 1
\* and the stop otherwise, and inc = step, or 1 for an absent step; an
\* integer v gives blc = trc = v and inc = 1.
C15_BoundsTranslation ==
    NativeCall =>
        /\ Len(native.blc) = arr.ndim
        /\ Len(native.trc) = arr.ndim
        /\ Len(native.inc) = arr.ndim
        /\ \A j \in 1..arr.ndim :
              /\ native.blc[j] = ClaimedBlc(EntryFor(j))
              /\ native.trc[j] = ClaimedTrc(EntryFor(j))
              /\ native.inc[j] = IF EntryFor(j).kind = "int" THEN 1
                                 ELSE IF EntryFor(j).step = None THEN 1
                                 ELSE EntryFor(j).step[1]

\* C15 as amended: the same, with inc = 1 for a step that is absent or 0
\* and inc = step for any other step.
C15_BoundsTranslation_Amended ==
    NativeCall =>
        /\ Len(native.blc) = arr.ndim
        /\ Len(native.trc) = arr.ndim
        /\ Len(native.inc) = arr.ndim
        /\ \A j \in 1..arr.ndim :
              /\ native.blc[j] = ClaimedBlc(EntryFor(j))
              /\ native.trc[j] = ClaimedTrc(EntryFor(j))
              /\ native.inc[j] = IF EntryFor(j).kind = "int" THEN 1
                                 ELSE IF EntryFor(j).step \in {None, Some(0)} THEN 1
                                 ELSE EntryFor(j).step[1]

\* C15 witness: arr[0:3, ::0] on an image of logical shape (3, 2) has made
\* the native read with blc = (-1, 0), trc = (-1, 2) and inc = (1, 1).
C15_Witness ==
    /\ NativeCall
    /\ arr.shape = <<3, 2>>
    /\ ret.arg = <<slice(Some(0), Some(3), None), slice(None, None, Some(0))>>
    /\ native = [blc |-> <<-1, 0>>, trc |-> <<-1, 2>>, inc |-> <<1, 1>>]

(***************************************************************************)
(* Claims about the handles of the region reader and about its callers     *)
(***************************************************************************)
\* C11: every image handle opened by __init__ or by a __getitem__ call is
\* closed by the time the call completes, whether it returns or raises, and
\* once every call has completed no handle is open.
C11_ScopedHandle ==
    /\ \A t \in Threads : Finished(t) => calls[t].ia \notin handles
    /\ (\A t \in Threads : calls[t].pc = "translate") => handles = {}
    /\ (\A t \in Threads : Finished(t)) => handles = {}

\* C14: however the steps of two __getitem__ calls on one object
\* interleave, each call ends with the result it gives when run alone, no
\* two calls use the same handle, and the object is as __init__ left it.
C14_ConcurrentReads ==
    /\ \A t \in Threads :
          Finished(t) =>
              LET r == getitem(ArraylikeCasaData(store), store.totalshape,
                               calls[t].value)
              IN calls[t].err = r.err /\ calls[t].out = r.data
    /\ \A t, u \in Threads :
          (t # u /\ calls[t].ia # None /\ calls[u].ia # None) =>
              calls[t].ia # calls[u].ia
    /\ arr.built => arr = ArraylikeCasaData(store)

\* C14 witness: two calls for the whole of a two-pixel image have both made
\* their native read and neither has closed its handle yet.
C14_Witness ==
    /\ store.totalshape = <<2>>
    /\ \A t \in Threads :
          /\ calls[t].value = AllOf(store.totalshape)
          /\ calls[t].pc = "done"
          /\ calls[t].data.shape = <<2>>
    /\ handles = {iatool(1), iatool(2)}
    /\ ngetchunk = 2
====
